---- MODULE Spec2Model ----
(***************************************************************************)
(* FinTrackBot (src/bot.py): the conversation state machines of the three  *)
(* ConversationHandlers registered in main(), the in-memory session map    *)
(* user_temp_data, the two store tables (expenses, categories) and the     *)
(* report chunkers.                                                        *)
(*                                                                         *)
(* Texts are sequences of one-character strings, so that float(), strip(), *)
(* len(), the "^cat_" / "^del_" patterns and data[4:] are computed and not *)
(* assumed.  The Cyrillic literals of the source are written in Latin      *)
(* transliteration with the same number of characters.                     *)
(***************************************************************************)
EXTENDS Integers, Sequences, FiniteSets, TLC

(***************************************************************************)
(* Text helpers                                                            *)
(***************************************************************************)
Digit == {"0", "1", "2", "3", "4", "5", "6", "7", "8", "9"}

DigitVal(c) ==
    CASE c = "0" -> 0 [] c = "1" -> 1 [] c = "2" -> 2 [] c = "3" -> 3
      [] c = "4" -> 4 [] c = "5" -> 5 [] c = "6" -> 6 [] c = "7" -> 7
      [] c = "8" -> 8 [] c = "9" -> 9

\* str.isspace() for the characters of the model's alphabet
Whitespace == {" ", "\n", "\t"}

RECURSIVE LStrip(_)
LStrip(s) ==
    IF Len(s) > 0 /\ s[1] \in Whitespace THEN LStrip(Tail(s)) ELSE s

RECURSIVE RStrip(_)
RStrip(s) ==
    IF Len(s) > 0 /\ s[Len(s)] \in Whitespace
    THEN RStrip(SubSeq(s, 1, Len(s) - 1))
    ELSE s

\* str.strip()
Strip(s) == RStrip(LStrip(s))

\* s[n-1:], the slice that starts one character early
DropPrefixOffByOne(s, n) == SubSeq(s, n, Len(s))

\* s[n:]
DropPrefix(s, n) == SubSeq(s, n + 1, Len(s))

\* re.match("^" + p, s)
StartsWith(s, p) == Len(s) >= Len(p) /\ SubSeq(s, 1, Len(p)) = p

RECURSIVE SumLen(_)
SumLen(ss) == IF ss = <<>> THEN 0 ELSE Len(Head(ss)) + SumLen(Tail(ss))

(***************************************************************************)
(* float(text), for texts of at most 9 digits before the exponent and at   *)
(* most 9 in it.  A float in the range of the normal doubles is kept as    *)
(* the decimal m * 10^e of its text, normalised (m has no trailing zero;   *)
(* zero is 0 * 10^0), which decides == of such floats: two texts of at     *)
(* most 15 significant digits give the same double exactly when their      *)
(* decimals are equal.  A decimal beyond the largest double becomes inf,   *)
(* one at most half the smallest double becomes zero (the sign of a zero   *)
(* is dropped: -0.0 == 0.0).  Above that, a decimal with a digit below     *)
(* 10^-323 is rounded by float() to a multiple of 2^-1074 that its digits  *)
(* do not name: the result is marked "subnormal" and carries the decimal   *)
(* of the text, not the double.  A text with more digits gives a result    *)
(* marked "beyond", whatever float() makes of it.                          *)
(***************************************************************************)
ValueError == [kind |-> "ValueError", m |-> 0, e |-> 0]
NaN        == [kind |-> "nan", m |-> 0, e |-> 0]
Inf(sg)    == [kind |-> "inf", m |-> sg, e |-> 0]

\* the number of decimal digits of n > 0
RECURSIVE DigitCount(_)
DigitCount(n) == IF n < 10 THEN 1 ELSE 1 + DigitCount(n \div 10)

RECURSIVE Pow10(_)
Pow10(n) == IF n <= 0 THEN 1 ELSE 10 * Pow10(n - 1)

\* the double nearest to m * 10^e, for m # 0 of at most 9 digits: with
\* a.bcdefghi * 10^x the magnitude, inf from 1.7976931348623158e308
\* (2^1024 - 2^970) on, zero up to 2.4703282292062327e-324 (2^-1075); the
\* doubles below 2^-1022 are 4.94e-324 (2^-1074) apart, so that a decimal
\* in multiples of 10^-323 is still the shortest that names its double
Nearest(m, e) ==
    LET a  == IF m < 0 THEN 0 - m ELSE m
        x  == e + DigitCount(a) - 1
        m9 == a * Pow10(9 - DigitCount(a))
    IN  IF x > 308 \/ (x = 308 /\ m9 > 179769313)
        THEN Inf(IF m < 0 THEN -1 ELSE 1)
        ELSE IF x < -324 \/ (x = -324 /\ m9 <= 247032822)
        THEN [kind |-> "float", m |-> 0, e |-> 0]
        ELSE IF e < -323
        THEN [kind |-> "subnormal", m |-> m, e |-> e]
        ELSE [kind |-> "float", m |-> m, e |-> e]

RECURSIVE Normalise(_, _)
Normalise(m, e) ==
    IF m = 0 THEN [kind |-> "float", m |-> 0, e |-> 0]
    ELSE IF m % 10 = 0 THEN Normalise(m \div 10, e + 1)
    ELSE Nearest(m, e)

\* the int literal 0 of .get("amount", 0); 0 == 0.0 in Python
Zero == Normalise(0, 0)

\* a run of digits from position i, "_" allowed between two digits
RECURSIVE ScanDigits(_, _, _, _)
ScanDigits(s, i, val, n) ==
    IF i <= Len(s) /\ s[i] \in Digit
    THEN ScanDigits(s, i + 1, val * 10 + DigitVal(s[i]), n + 1)
    ELSE IF i < Len(s) /\ n > 0 /\ s[i] = "_" /\ s[i + 1] \in Digit
              /\ s[i - 1] \in Digit
    THEN ScanDigits(s, i + 1, val, n)
    ELSE [val |-> val, n |-> n, next |-> i]

\* str.lower() for the letters of inf, infinity and nan
LowerAll(s) ==
    [i \in 1..Len(s) |->
        CASE s[i] = "I" -> "i" [] s[i] = "N" -> "n" [] s[i] = "F" -> "f"
          [] s[i] = "A" -> "a" [] s[i] = "T" -> "t" [] s[i] = "Y" -> "y"
          [] s[i] = "E" -> "e" [] OTHER -> s[i]]

\* the float grammar on a text without surrounding whitespace
ParseStripped(s) ==
    LET neg  == Len(s) > 0 /\ s[1] = "-"
        i0   == IF Len(s) > 0 /\ s[1] \in {"+", "-"} THEN 2 ELSE 1
        sg   == IF neg THEN -1 ELSE 1
        word == LowerAll(SubSeq(s, i0, Len(s)))
        epos == IF \E i \in 1..Len(s) : s[i] \in {"e", "E"}
                THEN CHOOSE i \in 1..Len(s) :
                        /\ s[i] \in {"e", "E"}
                        /\ \A j \in 1..(i - 1) : s[j] \notin {"e", "E"}
                ELSE Len(s) + 1
        ip   == ScanDigits(s, i0, 0, 0)
        dot  == ip.next <= Len(s) /\ s[ip.next] = "."
        fp   == IF dot THEN ScanDigits(s, ip.next + 1, ip.val, 0)
                ELSE [val |-> ip.val, n |-> 0, next |-> ip.next]
        hasE == fp.next <= Len(s) /\ s[fp.next] \in {"e", "E"}
        j0   == fp.next + 1
        eneg == j0 <= Len(s) /\ s[j0] = "-"
        j1   == IF j0 <= Len(s) /\ s[j0] \in {"+", "-"} THEN j0 + 1 ELSE j0
        ep   == IF hasE THEN ScanDigits(s, j1, 0, 0)
                ELSE [val |-> 0, n |-> 0, next |-> fp.next]
        ex   == IF eneg THEN 0 - ep.val ELSE ep.val
    IN  IF word \in {<<"i", "n", "f">>, <<"i", "n", "f", "i", "n", "i", "t", "y">>}
        THEN Inf(sg)
        ELSE IF word = <<"n", "a", "n">> THEN NaN
        ELSE IF \/ Cardinality({i \in 1..Len(s) :
                              i < epos /\ s[i] \in Digit}) > 9
                \/ Cardinality({i \in 1..Len(s) :
                              i > epos /\ s[i] \in Digit}) > 9
        THEN [kind |-> "beyond", m |-> 0, e |-> 0]
        ELSE IF ip.n + fp.n = 0 THEN ValueError
        ELSE IF hasE /\ ep.n = 0 THEN ValueError
        ELSE IF ep.next # Len(s) + 1 THEN ValueError
        ELSE Normalise(sg * fp.val, ex - fp.n)

\* float(text): surrounding whitespace is ignored
ParseFloat(text) == ParseStripped(Strip(text))

(***************************************************************************)
(* Program constants                                                       *)
(***************************************************************************)
\* conversation states (AMOUNT, CATEGORY = range(2), the two string states)
\* and ConversationHandler.END, after which the key has no state
AMOUNT   == "AMOUNT"
CATEGORY == "CATEGORY"
WAITING_CATEGORY_NAME == "WAITING_CATEGORY_NAME"
CONFIRM_DELETE == "CONFIRM_DELETE"
END == "END"

\* "Eda", "Transport", "Zhil'e", "Razvlecheniya", "Pokupki", "Zdorov'e",
\* "Drugoe", each with the character count of the source literal
default_categories ==
    << <<"E", "d", "a">>,
       <<"T", "r", "a", "n", "s", "p", "o", "r", "t">>,
       <<"Z", "h", "i", "l", "e">>,
       <<"R", "a", "z", "v", "l", "e", "c", "h", "e", "n", "i">>,
       <<"P", "o", "k", "u", "p", "k", "i">>,
       <<"Z", "d", "o", "r", "o", "v", "y", "e">>,
       <<"D", "r", "u", "g", "o", "e">> >>

\* the category scope shared by all users (user_id 0 in the INSERTs)
GlobalScope == 0

cat_ == <<"c", "a", "t", "_">>
del_ == <<"d", "e", "l", "_">>

(***************************************************************************)
(* Inputs: who talks to the bot, where, and what they send                 *)
(***************************************************************************)
Users == {42, 7}

\* user 42 writes in two chats (a group and the private chat with the bot);
\* a ConversationHandler keys its state by (chat id, user id)
Keys == {<<1, 42>>, <<2, 42>>}

\* users 42 and 7 write in one group chat
GroupKeys == {<<1, 42>>, <<1, 7>>}

AllKeys == Keys \cup GroupKeys

\* the commands sent in each chat: every dialogue command in chat 1, the
\* expense dialogue alone in chat 2
Commands(k) ==
    IF k[1] = 1 THEN {"add", "cancel", "add_category", "delete_category"}
    ELSE {"add", "cancel"}


\* message texts that are not commands
Texts ==
    { <<"1", "2", ".", "5", "0">>,
      <<"7">>,
      <<"n", "a", "n">>,
      <<" ", "a", "b", "c">>,
      <<" ">> }

\* the texts sent in each chat
TextsIn(k) == IF k[1] = 1 THEN Texts ELSE {}

\* the texts sent in answer to the prompt for a category name: a name no
\* default carries, the second default name, and white space only
NameTexts == { <<" ", "a", "b", "c">>, default_categories[2], <<" ">> }

\* what a behaviour does not change: the day it happens on, which is what
\* datetime.datetime.now() returns, and the Telegram accounts of the users
\* (with a username, or with a first name only)
Worlds ==
    { [now |-> [year |-> 2025, month |-> 4, day |-> 15],
       account |-> [u \in Users |->
           [username |-> <<"a", "l", "i", "c", "e">>,
            first_name |-> <<"A", "l">>]]],
      [now |-> [year |-> 2026, month |-> 1, day |-> 2],
       account |-> [u \in Users |->
           [username |-> <<>>, first_name |-> <<"B", "o", "b">>]]] }

DigitChar(n) ==
    CASE n = 0 -> "0" [] n = 1 -> "1" [] n = 2 -> "2" [] n = 3 -> "3"
      [] n = 4 -> "4" [] n = 5 -> "5" [] n = 6 -> "6" [] n = 7 -> "7"
      [] n = 8 -> "8" [] n = 9 -> "9"

\* %m and %d: two digits, zero padded
Pad2(n) == <<DigitChar((n \div 10) % 10), DigitChar(n % 10)>>

\* %Y: four digits
Pad4(n) == <<DigitChar((n \div 1000) % 10), DigitChar((n \div 100) % 10),
             DigitChar((n \div 10) % 10), DigitChar(n % 10)>>

\* now.strftime("%m/%d/%Y")
Strftime(now) ==
    Pad2(now.month) \o <<"/">> \o Pad2(now.day) \o <<"/">> \o Pad4(now.year)

\* bound of table expenses in the model; table categories is bounded by
\* the names the updates carry
MaxExpenses == 1

(***************************************************************************)
(* The store: two tables, rows in insertion (id) order.  Every store       *)
(* function opens its own connection and commits once, so a call either    *)
(* takes effect whole or raises and leaves the tables as they were.        *)
(***************************************************************************)
\* SELECT category without DISTINCT: every row gives a name
EveryName(names) == names

RECURSIVE Distinct(_)
Distinct(names) ==
    IF names = <<>> THEN <<>>
    ELSE LET rest == Distinct(SubSeq(names, 1, Len(names) - 1))
             x    == names[Len(names)]
         IN  IF \E i \in 1..Len(rest) : rest[i] = x THEN rest
             ELSE Append(rest, x)

\* INSERT INTO expenses (user_id, amount, category, date, username)
insert_expense(table, user_id, amount, category, date, username) ==
    Append(table, [user_id |-> user_id, amount |-> amount,
                   category |-> category, date |-> date,
                   username |-> username])

\* INSERT INTO categories (user_id, category)
insert_category(table, user_id, category) ==
    Append(table, [user_id |-> user_id, category |-> category])

\* DELETE FROM categories WHERE user_id = %s AND category = %s
delete_category(table, user_id, category) ==
    SelectSeq(table, LAMBDA r : ~(r.user_id = user_id /\ r.category = category))

\* the seven INSERTs of the default categories for one owner
RECURSIVE InsertDefaults(_, _, _)
InsertDefaults(table, user_id, i) ==
    IF i > Len(default_categories) THEN table
    ELSE InsertDefaults(insert_category(table, user_id, default_categories[i]),
                        user_id, i + 1)

\* a get_categories without the seeding: an empty result is returned as it
\* is
get_categories_unseeded(table) ==
    [table |-> table,
     categories |-> Distinct([i \in 1..Len(table) |-> table[i].category])]

\* a get_categories that never commits its INSERTs: the defaults are
\* returned and the table stays empty
get_categories_uncommitted(table) ==
    LET rows == Distinct([i \in 1..Len(table) |-> table[i].category])
    IN  IF rows = <<>>
        THEN [table |-> table, categories |-> default_categories]
        ELSE [table |-> table, categories |-> rows]

\* SELECT DISTINCT category FROM categories, then the seeding of an empty
\* result.  The handlers use the result for membership and for the buttons
\* they build; the rows are listed in order of first insertion.
get_categories(table) ==
    LET rows == Distinct([i \in 1..Len(table) |-> table[i].category])
    IN  IF rows = <<>>
        THEN [table |-> InsertDefaults(table, GlobalScope, 1),
              categories |-> default_categories]
        ELSE [table |-> table, categories |-> rows]

\* some row of the table carries the name
Stored(table, name) == \E i \in 1..Len(table) : table[i].category = name

\* how many rows of the table carry the name
RowsNamed(table, name) ==
    Cardinality({i \in 1..Len(table) : table[i].category = name})

Contains(list, x) == \E i \in 1..Len(list) : list[i] = x

(***************************************************************************)
(* Updates and their dispatch (main): the handlers of group 0 are tried in *)
(* the order of add_handler and the first that accepts the update handles  *)
(* it; a ConversationHandler accepts it by its state for the update's key. *)
(***************************************************************************)
CommandHandler(command, callback) ==
    [kind |-> "command", command |-> command, pattern |-> <<>>,
     callback |-> callback]

\* MessageHandler(filters.TEXT & ~filters.COMMAND, callback)
MessageHandler(callback) ==
    [kind |-> "text", command |-> "", pattern |-> <<>>, callback |-> callback]

CallbackQueryHandler(callback, pattern) ==
    [kind |-> "callback_query", command |-> "", pattern |-> pattern,
     callback |-> callback]

add_expense_handler ==
    [name |-> "add_expense_handler",
     entry_points |-> <<CommandHandler("add", "add_expense")>>,
     states |-> (AMOUNT :> <<MessageHandler("amount_entered")>>) @@
                (CATEGORY :> <<CallbackQueryHandler("category_selected", cat_)>>),
     fallbacks |-> <<CommandHandler("cancel", "cancel")>>,
     allow_reentry |-> TRUE]

add_category_handler ==
    [name |-> "add_category_handler",
     entry_points |-> <<CommandHandler("add_category", "add_category_command")>>,
     states |-> (WAITING_CATEGORY_NAME :>
                    <<MessageHandler("new_category_name")>>),
     fallbacks |-> <<CommandHandler("cancel", "cancel")>>,
     allow_reentry |-> FALSE]

delete_category_handler ==
    [name |-> "delete_category_handler",
     entry_points |->
         <<CommandHandler("delete_category", "delete_category_command")>>,
     states |-> (CONFIRM_DELETE :>
                    <<CallbackQueryHandler("confirm_delete_category", del_)>>),
     fallbacks |-> <<CommandHandler("cancel", "cancel")>>,
     allow_reentry |-> FALSE]

\* the conversation handlers in the order of app.add_handler; the plain
\* CommandHandlers registered before them accept none of the updates below,
\* and CommandHandler("month") comes after them
ConversationHandlers ==
    <<add_expense_handler, add_category_handler, delete_category_handler>>

ConversationNames ==
    {ConversationHandlers[i].name : i \in 1..Len(ConversationHandlers)}

Matches(h, upd) ==
    CASE h.kind = "command" ->
            upd.kind = "command" /\ upd.command = h.command
      [] h.kind = "text" ->
            upd.kind = "text" /\ Len(upd.text) > 0 /\ upd.text[1] # "/"
      [] h.kind = "callback_query" ->
            upd.kind = "callback_query" /\ StartsWith(upd.data, h.pattern)

NoHandler == "none"

FirstMatch(hs, upd) ==
    LET idx == {i \in 1..Len(hs) : Matches(hs[i], upd)}
    IN  IF idx = {} THEN NoHandler
        ELSE hs[CHOOSE i \in idx : \A j \in idx : i <= j].callback

\* check_update that asks the fallbacks only of a handler with allow_reentry
CheckUpdateNoFallbacks(ch, state, upd) ==
    LET ep == IF state = END \/ ch.allow_reentry
              THEN FirstMatch(ch.entry_points, upd) ELSE NoHandler
    IN  IF ep # NoHandler THEN ep
        ELSE IF state = END THEN NoHandler
        ELSE LET st == FirstMatch(ch.states[state], upd)
             IN  IF st # NoHandler THEN st
                 ELSE IF ch.allow_reentry THEN FirstMatch(ch.fallbacks, upd)
                 ELSE NoHandler

\* ConversationHandler.check_update: entry points (when the key has no state
\* or allow_reentry), then the handlers of the state, then the fallbacks
CheckUpdate(ch, state, upd) ==
    LET ep == IF state = END \/ ch.allow_reentry
              THEN FirstMatch(ch.entry_points, upd) ELSE NoHandler
    IN  IF ep # NoHandler THEN ep
        ELSE IF state = END THEN NoHandler
        ELSE LET st == FirstMatch(ch.states[state], upd)
             IN  IF st # NoHandler THEN st
                 ELSE FirstMatch(ch.fallbacks, upd)

\* Application.process_update over the conversation handlers
Dispatch(convs, upd) ==
    LET idx == {i \in 1..Len(ConversationHandlers) :
                  CheckUpdate(ConversationHandlers[i],
                              convs[ConversationHandlers[i].name][upd.key],
                              upd) # NoHandler}
    IN  IF idx = {} THEN [handler |-> NoHandler, callback |-> NoHandler]
        ELSE LET i  == CHOOSE i \in idx : \A j \in idx : i <= j
                 ch == ConversationHandlers[i]
             IN  [handler |-> ch.name,
                  callback |-> CheckUpdate(ch, convs[ch.name][upd.key], upd)]

Command(k, name) ==
    [kind |-> "command", key |-> k, command |-> name, text |-> <<>>,
     data |-> <<>>]

TextMessage(k, t) ==
    [kind |-> "text", key |-> k, command |-> "", text |-> t, data |-> <<>>]

CallbackQuery(k, d) ==
    [kind |-> "callback_query", key |-> k, command |-> "", text |-> <<>>,
     data |-> d]

\* the categories whose buttons the modelled users press
ButtonNames == {default_categories[1], <<"a", "b", "c">>}

(***************************************************************************)
(* Formatting of numbers                                                   *)
(***************************************************************************)
RECURSIVE NatText(_)
NatText(n) ==
    IF n < 10 THEN <<DigitChar(n)>>
    ELSE Append(NatText(n \div 10), DigitChar(n % 10))

\* str(n) of an int
IntText(n) == IF n < 0 THEN <<"-">> \o NatText(0 - n) ELSE NatText(n)

RECURSIVE Zeros(_)
Zeros(n) == IF n <= 0 THEN <<>> ELSE Append(Zeros(n - 1), "0")

Abs(n) == IF n < 0 THEN 0 - n ELSE n

\* f"{amount}" of a float between 1e-4 and 1e16 in size: the shortest
\* decimal, with ".0" after a whole number
Repr(v) ==
    LET d    == NatText(Abs(v.m))
        sign == IF v.m < 0 THEN <<"-">> ELSE <<>>
        k    == 0 - v.e
    IN  IF v.e >= 0 THEN sign \o d \o Zeros(v.e) \o <<".", "0">>
        ELSE IF Len(d) > k
        THEN sign \o SubSeq(d, 1, Len(d) - k) \o <<".">>
                  \o SubSeq(d, Len(d) - k + 1, Len(d))
        ELSE sign \o <<"0", ".">> \o Zeros(k - Len(d)) \o d

\* f"{amount:.2f}" of a float with at most two decimals
Format2f(v) ==
    LET cents == Abs(v.m) * Pow10(v.e + 2)
        sign  == IF v.m < 0 THEN <<"-">> ELSE <<>>
    IN  sign \o NatText(cents \div 100) \o <<".">> \o Pad2(cents % 100)

(***************************************************************************)
(* The report chunkers.  A report is sent as messages (reply_text) of at   *)
(* most max_chunk_length characters; rows are (amount, category, date,     *)
(* username) as the store returns them.                                    *)
(***************************************************************************)
max_chunk_length == 3500

month_names(month) ==
    CASE month = 1 -> <<"Y", "a", "n", "v", "a", "r">>
      [] month = 2 -> <<"F", "e", "v", "r", "a", "l", "'">>
      [] month = 3 -> <<"M", "a", "r", "t">>
      [] month = 4 -> <<"A", "p", "r", "e", "l", "'">>
      [] month = 5 -> <<"M", "a", "y">>
      [] month = 6 -> <<"I", "y", "u", "n">>
      [] month = 7 -> <<"I", "y", "u", "l">>
      [] month = 8 -> <<"A", "v", "g", "u", "s", "t">>
      [] month = 9 -> <<"S", "e", "n", "t", "a", "b", "r", "'">>
      [] month = 10 -> <<"O", "k", "t", "a", "b", "r", "'">>
      [] month = 11 -> <<"N", "o", "a", "b", "r", "'">>
      [] month = 12 -> <<"D", "e", "k", "a", "b", "r", "'">>
      [] OTHER -> IntText(month)

\* " (prodolzhenie)"
Continued ==
    <<" ", "(", "p", "r", "o", "d", "o", "l", "g", "e", "n", "i", "e", ")">>

\* " (dobavil: @"
AddedBy == <<" ", "(", "d", "o", "b", "a", "v", "i", "l", ":", " ", "@">>

\* f"{date}: {amount}$ - {category} (dobavil: @{username})\n"
ExpenseLine(row) ==
    row.date \o <<":", " ">> \o Repr(row.amount) \o <<"$", " ", "-", " ">>
        \o row.category \o AddedBy \o row.username \o <<")", "\n">>

\* f"{date}: {amount:.2f}$ - {category} (dobavil: @{username})\n"
ExpenseLine2f(row) ==
    row.date \o <<":", " ">> \o Format2f(row.amount) \o <<"$", " ", "-", " ">>
        \o row.category \o AddedBy \o row.username \o <<")", "\n">>

\* "Vashi raskhody:\n\n", the title_prefix report passes
TitlePrefix ==
    <<"V", "a", "s", "i", " ", "r", "a", "s", "h", "o", "d", "y", ":", "\n", "\n">>

\* the three chunkers: the text a first message starts with, the text a
\* later message starts with, and the line of a row
Header(chunker, month, year) ==
    CASE chunker = "send_expenses_in_chunks" ->
            TitlePrefix \o <<"=", "=", " ">> \o month_names(month) \o <<" ">>
                \o IntText(year) \o <<" ", "=", "=", "\n">>
      [] chunker = "send_monthly_expenses_in_chunks" ->
            <<"O", "t", "c", "e", "t", " ", "z", "a", " ">> \o month_names(month)
                \o <<" ">> \o IntText(year) \o <<":", "\n", "\n">>
      [] chunker = "send_previous_month_expenses" ->
            <<"#", " ", "P", "o", "d", "r", "o", "b", "n", "y", "j", " ", "o",
              "t", "c", "e", "t", " ", "z", "a", " ">> \o month_names(month)
                \o <<" ">> \o IntText(year) \o <<":", "\n", "\n">>

ContinuationHeader(chunker, month, year) ==
    CASE chunker = "send_expenses_in_chunks" ->
            <<"=", "=", " ">> \o month_names(month) \o <<" ">> \o IntText(year)
                \o Continued \o <<" ", "=", "=", "\n">>
      [] chunker = "send_monthly_expenses_in_chunks" ->
            <<"O", "t", "c", "e", "t", " ", "z", "a", " ">> \o month_names(month)
                \o <<" ">> \o IntText(year) \o Continued \o <<":", "\n", "\n">>
      [] chunker = "send_previous_month_expenses" ->
            <<"#", " ">> \o month_names(month) \o <<" ">> \o IntText(year)
                \o Continued \o <<":", "\n", "\n">>

Line(chunker, row) ==
    IF chunker = "send_expenses_in_chunks" THEN ExpenseLine(row)
    ELSE ExpenseLine2f(row)

\* a chunker that measures the line alone, not the chunk with the line
OverflowsLineOnly(chunk_text, expense_line) ==
    Len(expense_line) > max_chunk_length

\* len(chunk_text + expense_line) > max_chunk_length
Overflows(chunk_text, expense_line) ==
    Len(chunk_text \o expense_line) > max_chunk_length

\* a loop body that starts the next chunk with the continuation header
\* alone, losing the line that did not fit
LoopBodyDropsLine(chunker, month, year, chunk, row) ==
    LET expense_line == Line(chunker, row)
    IN  IF Overflows(chunk, expense_line)
        THEN [sent |-> <<chunk>>,
              chunk_text |-> ContinuationHeader(chunker, month, year)]
        ELSE [sent |-> <<>>, chunk_text |-> chunk \o expense_line]

\* a loop body that starts the next chunk with the first header again
LoopBodyRepeatsHeader(chunker, month, year, chunk, row) ==
    LET expense_line == Line(chunker, row)
    IN  IF Overflows(chunk, expense_line)
        THEN [sent |-> <<chunk>>,
              chunk_text |-> Header(chunker, month, year) \o expense_line]
        ELSE [sent |-> <<>>, chunk_text |-> chunk \o expense_line]

\* one pass of the for loop: what is sent, and the chunk carried on
LoopBody(chunker, month, year, chunk, row) ==
    LET expense_line == Line(chunker, row)
    IN  IF Overflows(chunk, expense_line)
        THEN [sent |-> <<chunk>>,
              chunk_text |-> ContinuationHeader(chunker, month, year)
                                \o expense_line]
        ELSE [sent |-> <<>>, chunk_text |-> chunk \o expense_line]

\* the condition under which the chunk left after the loop is sent
SendsLast(chunker, month, year, chunk) ==
    IF chunker = "send_expenses_in_chunks"
    THEN Strip(chunk) # <<>> /\ chunk # Header(chunker, month, year)
    ELSE Strip(chunk) # <<>>

(***************************************************************************)
(* State                                                                   *)
(***************************************************************************)
VARIABLES
    conversations,   \* per ConversationHandler: key -> state (END: no state)
    user_temp_data,  \* user id -> [amount], the sessions of the expense flow
    expenses,        \* rows of table expenses
    categories,      \* rows of table categories
    last,            \* the update handled last, its callback and its outcome
    world,           \* the clock and the Telegram accounts
    job,             \* a chunker at work: which one, its month, year and rows
    pc,              \* 0 before its first line, i at row i of its loop,
                     \* Len(rows) + 1 after the loop, Len(rows) + 2 returned
    chunk_text,      \* its chunk_text
    sent,            \* the messages it has sent with reply_text, in order
    workers,         \* per worker: where it is in get_categories or in
                     \* delete_category, the rows it selected, what it
                     \* returned last, its calls so far, the name its
                     \* DELETE is for and how many rows it found
    queried,         \* the get_monthly_expenses calls of the update handled
                     \* last: their (month, year)
    asked_clear,     \* history: the users whose /clear has been handled
    listed           \* the categories list_categories got from
                     \* get_categories for the update handled last

vars == <<conversations, user_temp_data, expenses, categories, last, world,
          job, pc, chunk_text, sent, workers, queried, asked_clear, listed>>

\* what the chunkers and the dialogue callbacks leave alone
Elsewhere == <<workers, queried, asked_clear, listed>>

\* what the dialogue callbacks leave alone
Frame == <<world, job, pc, chunk_text, sent, workers, queried, asked_clear,
           listed>>

\* the processes that may run get_categories at the same time
Workers == {1, 2}

NoCall ==
    [pc |-> "idle", rows |-> <<>>, result |-> <<>>, calls |-> 0,
     name |-> <<>>, found |-> 0, waits |-> FALSE]

\* no worker in get_categories, no report command handled, no /clear yet
Quiet ==
    /\ workers = [w \in Workers |-> NoCall]
    /\ queried = <<>>
    /\ asked_clear = {}
    /\ listed = <<>>

NoJob == [chunker |-> "none", month |-> 0, year |-> 0, rows |-> <<>>]

Outcome(upd, callback, reply, raised) ==
    [update |-> upd, callback |-> callback, reply |-> reply,
     raised |-> raised]

\* the bot after main() has built the application: no conversation, no
\* session, the tables as initialize_db creates them
Started ==
    /\ conversations = [n \in ConversationNames |-> [k \in AllKeys |-> END]]
    /\ user_temp_data = <<>>
    /\ expenses = <<>>
    /\ categories = <<>>
    /\ last = Outcome(Command(<<0, 0>>, ""), NoHandler, "", FALSE)

Init ==
    /\ Started
    /\ world \in Worlds
    /\ job = NoJob
    /\ pc = 0
    /\ chunk_text = <<>>
    /\ sent = <<>>
    /\ Quiet

\* the conversation handler stores the state its callback returned
Returned(handler, upd, state) ==
    [conversations EXCEPT ![handler][upd.key] = state]

\* user_temp_data.setdefault(user_id, {"amount": amount}): an entry that
\* exists keeps its amount
SetAmountIfAbsent(data, user_id, amount) ==
    [u \in DOMAIN data \cup {user_id} |->
        IF u \in DOMAIN data THEN data[u] ELSE [amount |-> amount]]

\* user_temp_data[user_id]["amount"] = amount
SetAmount(data, user_id, amount) ==
    [u \in DOMAIN data \cup {user_id} |->
        IF u = user_id THEN [amount |-> amount] ELSE data[u]]

\* user_temp_data.clear(): every user's entry goes
DelEverySession(data, user_id) == <<>>

\* if user_id in user_temp_data: del user_temp_data[user_id]
DelSession(data, user_id) ==
    [u \in DOMAIN data \ {user_id} |-> data[u]]

(***************************************************************************)
(* The callbacks.  fault names the store call that raises in this run of   *)
(* the callback ("none": no call raises); an exception leaves the          *)
(* conversation state as it was, as the callback returned nothing.         *)
(***************************************************************************)
add_expense(handler, upd) ==
    /\ conversations' = Returned(handler, upd, AMOUNT)
    /\ last' = Outcome(upd, "add_expense", "enter_amount", FALSE)
    /\ UNCHANGED <<user_temp_data, expenses, categories>>

amount_entered(handler, upd, fault) ==
    LET user_id == upd.key[2]
        amount  == ParseFloat(upd.text)
        got     == get_categories(categories)
    IN  IF amount = ValueError
        THEN /\ fault = "none"
             /\ conversations' = Returned(handler, upd, AMOUNT)
             /\ last' = Outcome(upd, "amount_entered",
                                "enter_valid_number", FALSE)
             /\ UNCHANGED <<user_temp_data, expenses, categories>>
        ELSE /\ user_temp_data' = SetAmount(user_temp_data, user_id, amount)
             /\ IF fault = "get_categories"
                THEN /\ last' = Outcome(upd, "amount_entered", "",
                                        TRUE)
                     /\ UNCHANGED <<conversations, expenses, categories>>
                ELSE /\ categories' = got.table
                     /\ conversations' = Returned(handler, upd, CATEGORY)
                     /\ last' = Outcome(upd, "amount_entered",
                                        "choose_category", FALSE)
                     /\ UNCHANGED expenses

category_selected(handler, upd, fault) ==
    LET user_id  == upd.key[2]
        user     == world.account[user_id]
        username == IF user.username # <<>> THEN user.username
                    ELSE user.first_name
        category == DropPrefix(upd.data, 4)
        amount   == IF user_id \in DOMAIN user_temp_data
                    THEN user_temp_data[user_id].amount ELSE Zero
        date     == Strftime(world.now)
    IN  IF fault = "insert_expense"
        THEN /\ last' = Outcome(upd, "category_selected", "", TRUE)
             /\ UNCHANGED <<conversations, user_temp_data, expenses,
                            categories>>
        ELSE /\ expenses' = insert_expense(expenses, user_id, amount,
                                           category, date, username)
             /\ user_temp_data' = DelSession(user_temp_data, user_id)
             /\ conversations' = Returned(handler, upd, END)
             /\ last' = Outcome(upd, "category_selected", "saved",
                                FALSE)
             /\ UNCHANGED categories

\* cancel with an unguarded del user_temp_data[user_id]: KeyError when the
\* user has no entry
cancel_unguarded(handler, upd) ==
    IF upd.key[2] \in DOMAIN user_temp_data
    THEN /\ user_temp_data' = [u \in DOMAIN user_temp_data \ {upd.key[2]} |->
                                  user_temp_data[u]]
         /\ conversations' = [conversations EXCEPT ![handler][upd.key] = END]
         /\ last' = Outcome(upd, "cancel", "cancelled", FALSE)
         /\ UNCHANGED <<expenses, categories>>
    ELSE /\ last' = Outcome(upd, "cancel", "", TRUE)
         /\ UNCHANGED <<conversations, user_temp_data, expenses, categories>>

cancel(handler, upd) ==
    /\ user_temp_data' = DelSession(user_temp_data, upd.key[2])
    /\ conversations' = Returned(handler, upd, END)
    /\ last' = Outcome(upd, "cancel", "cancelled", FALSE)
    /\ UNCHANGED <<expenses, categories>>

add_category_command(handler, upd) ==
    /\ conversations' = Returned(handler, upd, WAITING_CATEGORY_NAME)
    /\ last' = Outcome(upd, "add_category_command",
                       "enter_category_name", FALSE)
    /\ UNCHANGED <<user_temp_data, expenses, categories>>

new_category_name(handler, upd, fault) ==
    LET new_category == Strip(upd.text)
        got          == get_categories(categories)
    IN  IF new_category = <<>>
        THEN /\ fault = "none"
             /\ conversations' = Returned(handler, upd, WAITING_CATEGORY_NAME)
             /\ last' = Outcome(upd, "new_category_name",
                                "name_empty", FALSE)
             /\ UNCHANGED <<user_temp_data, expenses, categories>>
        ELSE IF fault = "get_categories"
        THEN /\ last' = Outcome(upd, "new_category_name", "", TRUE)
             /\ UNCHANGED <<conversations, user_temp_data, expenses,
                            categories>>
        ELSE IF Contains(got.categories, new_category)
        THEN /\ fault = "none"
             /\ categories' = got.table
             /\ conversations' = Returned(handler, upd, END)
             /\ last' = Outcome(upd, "new_category_name",
                                "already_exists", FALSE)
             /\ UNCHANGED <<user_temp_data, expenses>>
        ELSE IF fault = "insert_category"
        THEN /\ categories' = got.table
             /\ last' = Outcome(upd, "new_category_name", "", TRUE)
             /\ UNCHANGED <<conversations, user_temp_data, expenses>>
        ELSE /\ categories' = insert_category(got.table, GlobalScope,
                                              new_category)
             /\ conversations' = Returned(handler, upd, END)
             /\ last' = Outcome(upd, "new_category_name", "added",
                                FALSE)
             /\ UNCHANGED <<user_temp_data, expenses>>

delete_category_command(handler, upd, fault) ==
    LET got == get_categories(categories)
    IN  IF fault = "get_categories"
        THEN /\ last' = Outcome(upd, "delete_category_command", "",
                                TRUE)
             /\ UNCHANGED <<conversations, user_temp_data, expenses,
                            categories>>
        ELSE /\ categories' = got.table
             /\ IF got.categories = <<>>
                THEN /\ conversations' = Returned(handler, upd, END)
                     /\ last' = Outcome(upd, "delete_category_command",
                                        "nothing_to_delete", FALSE)
                ELSE /\ conversations' = Returned(handler, upd, CONFIRM_DELETE)
                     /\ last' = Outcome(upd, "delete_category_command",
                                        "choose_to_delete", FALSE)
             /\ UNCHANGED <<user_temp_data, expenses>>

confirm_delete_category(handler, upd, fault) ==
    LET category == DropPrefix(upd.data, 4)
    IN  IF fault = "delete_category"
        THEN /\ last' = Outcome(upd, "confirm_delete_category", "",
                                TRUE)
             /\ UNCHANGED <<conversations, user_temp_data, expenses,
                            categories>>
        ELSE /\ categories' = delete_category(categories, GlobalScope, category)
             /\ conversations' = Returned(handler, upd, END)
             /\ last' = Outcome(upd, "confirm_delete_category",
                                "deleted", FALSE)
             /\ UNCHANGED <<user_temp_data, expenses>>

(***************************************************************************)
(* One action per callback: an update arrives, is dispatched, and the      *)
(* callback it reaches runs.                                               *)
(***************************************************************************)
Routed(upd, callback) == Dispatch(conversations, upd).callback = callback

Via(upd) == Dispatch(conversations, upd).handler

\* the buttons of the keyboards built from the categories now stored
Buttons(prefix) ==
    {prefix \o n : n \in {b \in ButtonNames :
                            \E i \in 1..Len(categories) :
                                categories[i].category = b}}

AddExpense ==
    /\ \E k \in Keys :
           LET upd == Command(k, "add")
           IN  "add" \in Commands(k) /\ Routed(upd, "add_expense") /\ add_expense(Via(upd), upd)
    /\ UNCHANGED Frame

AmountEntered ==
    /\ \E k \in Keys :
         \E t \in TextsIn(k), fault \in {"none", "get_categories"} :
           LET upd == TextMessage(k, t)
           IN  Routed(upd, "amount_entered")
               /\ amount_entered(Via(upd), upd, fault)
    /\ UNCHANGED Frame

CategorySelected ==
    /\ \E k \in Keys, d \in Buttons(cat_), fault \in {"none", "insert_expense"} :
           LET upd == CallbackQuery(k, d)
           IN  /\ Routed(upd, "category_selected")
               /\ Len(expenses) < MaxExpenses
               /\ category_selected(Via(upd), upd, fault)
    /\ UNCHANGED Frame

Cancel ==
    /\ \E k \in Keys :
           LET upd == Command(k, "cancel")
           IN  "cancel" \in Commands(k) /\ Routed(upd, "cancel") /\ cancel(Via(upd), upd)
    /\ UNCHANGED Frame

AddCategoryCommand ==
    /\ \E k \in Keys :
           LET upd == Command(k, "add_category")
           IN  "add_category" \in Commands(k) /\ Routed(upd, "add_category_command")
               /\ add_category_command(Via(upd), upd)
    /\ UNCHANGED Frame

NewCategoryName ==
    /\ \E k \in Keys :
         \E t \in IF k[1] = 1 THEN NameTexts ELSE {},
            fault \in {"none", "get_categories", "insert_category"} :
           LET upd == TextMessage(k, t)
           IN  /\ Routed(upd, "new_category_name")
               /\ new_category_name(Via(upd), upd, fault)
    /\ UNCHANGED Frame

DeleteCategoryCommand ==
    /\ \E k \in Keys, fault \in {"none", "get_categories"} :
           LET upd == Command(k, "delete_category")
           IN  "delete_category" \in Commands(k) /\ Routed(upd, "delete_category_command")
               /\ delete_category_command(Via(upd), upd, fault)
    /\ UNCHANGED Frame

ConfirmDeleteCategory ==
    /\ \E k \in Keys, d \in Buttons(del_), fault \in {"none", "delete_category"} :
           LET upd == CallbackQuery(k, d)
           IN  Routed(upd, "confirm_delete_category")
               /\ confirm_delete_category(Via(upd), upd, fault)
    /\ UNCHANGED Frame

Next ==
    \/ AddExpense
    \/ AmountEntered
    \/ CategorySelected
    \/ Cancel
    \/ AddCategoryCommand
    \/ NewCategoryName
    \/ DeleteCategoryCommand
    \/ ConfirmDeleteCategory

Spec == Init /\ [][Next]_vars

(***************************************************************************)
(* A chunker at work, one action per step of its code.  Its rows are what  *)
(* the store returned to the report that calls it: a report calls its      *)
(* chunker only with at least one row; the columns category and username   *)
(* are TEXT of any length.                                                 *)
(***************************************************************************)
MaxRows == 3

Chunkers ==
    {"send_expenses_in_chunks", "send_monthly_expenses_in_chunks",
     "send_previous_month_expenses"}

Filler(n) == [i \in 1..n |-> "x"]

\* categories of 3, 1700, 3423 and 3440 characters
RowCategories ==
    {default_categories[1], Filler(1700), Filler(3423), Filler(3440)}

Rows ==
    { [amount |-> [kind |-> "float", m |-> 125, e |-> -1],
       category |-> c,
       date |-> <<"0", "4", "/", "1", "5", "/", "2", "0", "2", "5">>,
       username |-> <<"a", "l", "i", "c", "e">>] : c \in RowCategories }

Jobs ==
    { [chunker |-> c, month |-> m, year |-> 2025, rows |-> rs] :
        c \in Chunkers, m \in {4, 12},
        rs \in UNION {[1..n -> Rows] : n \in 1..MaxRows} }

ChunkInit ==
    /\ Started
    /\ world = CHOOSE w \in Worlds : w.now.year = 2025
    /\ job \in Jobs
    /\ pc = 0
    /\ chunk_text = <<>>
    /\ sent = <<>>
    /\ Quiet

Returned_pc == Len(job.rows) + 2

\* if not expenses_list: return (send_expenses_in_chunks only); then the
\* header becomes the chunk
ChunkBegin ==
    /\ job # NoJob
    /\ pc = 0
    /\ IF job.chunker = "send_expenses_in_chunks" /\ job.rows = <<>>
       THEN pc' = Returned_pc /\ UNCHANGED chunk_text
       ELSE /\ chunk_text' = Header(job.chunker, job.month, job.year)
            /\ pc' = 1
    /\ UNCHANGED <<conversations, user_temp_data, expenses, categories, last,
                   world, job, sent>>
    /\ UNCHANGED Elsewhere

ChunkLoop ==
    /\ pc \in 1..Len(job.rows)
    /\ LET r == LoopBody(job.chunker, job.month, job.year, chunk_text,
                         job.rows[pc])
       IN  /\ sent' = sent \o r.sent
           /\ chunk_text' = r.chunk_text
    /\ pc' = pc + 1
    /\ UNCHANGED <<conversations, user_temp_data, expenses, categories, last,
                   world, job>>
    /\ UNCHANGED Elsewhere

ChunkEnd ==
    /\ job # NoJob
    /\ pc = Len(job.rows) + 1
    /\ sent' = IF SendsLast(job.chunker, job.month, job.year, chunk_text)
               THEN Append(sent, chunk_text) ELSE sent
    /\ pc' = Returned_pc
    /\ UNCHANGED <<conversations, user_temp_data, expenses, categories, last,
                   world, job, chunk_text>>
    /\ UNCHANGED Elsewhere

ChunkNext == ChunkBegin \/ ChunkLoop \/ ChunkEnd

ChunkSpec == ChunkInit /\ [][ChunkNext]_vars

(***************************************************************************)
(* get_categories run by two workers on one store, one action per step of  *)
(* its code.  A worker's INSERTs become visible to the other when it       *)
(* commits; between its SELECT and its commit the other may run.  A worker *)
(* may also delete a category: delete_category is a DELETE and a commit,   *)
(* and between the two the other may run.  The DELETE finds the rows       *)
(* committed when it runs, the oldest rows of the name; a DELETE that      *)
(* finds rows another uncommitted DELETE found waits for that commit and   *)
(* then removes what is left of its rows (PostgreSQL, READ COMMITTED).     *)
(***************************************************************************)
MaxCalls == 2

\* what get_categories and delete_category leave alone
SeedFrame == <<conversations, user_temp_data, expenses, last, world, job,
               pc, chunk_text, sent, queried, asked_clear, listed>>

\* cur.execute("SELECT DISTINCT category FROM categories"); cur.fetchall()
SeedSelect(w) ==
    /\ workers[w].pc = "idle"
    /\ workers[w].calls < MaxCalls
    /\ workers' = [workers EXCEPT ![w].pc = "selected",
                     ![w].rows = Distinct([i \in 1..Len(categories) |->
                                              categories[i].category])]
    /\ UNCHANGED categories
    /\ UNCHANGED SeedFrame

\* if not rows: the seven INSERTs, conn.commit(), return the defaults
SeedCommit(w) ==
    /\ workers[w].pc = "selected"
    /\ workers[w].rows = <<>>
    /\ categories' = InsertDefaults(categories, GlobalScope, 1)
    /\ workers' = [workers EXCEPT ![w].pc = "idle",
                     ![w].result = default_categories,
                     ![w].calls = @ + 1]
    /\ UNCHANGED SeedFrame

\* else: return [row[0] for row in rows]
SeedReturn(w) ==
    /\ workers[w].pc = "selected"
    /\ workers[w].rows # <<>>
    /\ workers' = [workers EXCEPT ![w].pc = "idle",
                     ![w].result = workers[w].rows,
                     ![w].calls = @ + 1]
    /\ UNCHANGED categories
    /\ UNCHANGED SeedFrame

\* delete_category(0, name) by a worker that is not inside get_categories,
\* up to its cur.execute: the DELETE finds the rows of the name committed
\* so far, and waits if the other worker's DELETE found rows of the name
\* first
SeedDelete(w) ==
    /\ workers[w].pc = "idle"
    /\ \E name \in {default_categories[1], default_categories[2]} :
         LET found == Len(categories)
                        - Len(delete_category(categories, GlobalScope, name))
             held  == \E v \in Workers \ {w} :
                          /\ workers[v].pc = "deleting"
                          /\ workers[v].name = name
                          /\ workers[v].found > 0
         IN  workers' = [workers EXCEPT ![w].pc = "deleting",
                           ![w].name = name,
                           ![w].found = found,
                           ![w].waits = (found > 0 /\ held)]
    /\ UNCHANGED categories
    /\ UNCHANGED SeedFrame

\* conn.commit() of delete_category: the rows the DELETE found leave the
\* table, rows of the name committed after the DELETE ran stay; a waiting
\* DELETE of the name goes on with the rows this commit left it
SeedDeleteCommit(w) ==
    /\ workers[w].pc = "deleting"
    /\ ~workers[w].waits
    /\ LET name   == workers[w].name
           k      == workers[w].found
           hit(i) == /\ categories[i].user_id = GlobalScope
                     /\ categories[i].category = name
           gone   == {i \in 1..Len(categories) :
                         /\ hit(i)
                         /\ Cardinality({j \in 1..i : hit(j)}) <= k}
           kept   == (1..Len(categories)) \ gone
       IN  /\ categories' =
                 [n \in 1..Cardinality(kept) |->
                     categories[CHOOSE i \in kept :
                                   Cardinality({j \in kept : j <= i}) = n]]
           /\ workers' =
                 [v \in Workers |->
                     IF v = w
                     THEN [workers[w] EXCEPT !.pc = "idle", !.name = <<>>,
                                             !.found = 0]
                     ELSE IF workers[v].pc = "deleting"
                             /\ workers[v].name = name
                          THEN [workers[v] EXCEPT
                                   !.found = IF @ > k THEN @ - k ELSE 0,
                                   !.waits = (@ /\ k = 0)]
                          ELSE workers[v]]
    /\ UNCHANGED SeedFrame

SeedNext ==
    \E w \in Workers :
        \/ SeedSelect(w) \/ SeedCommit(w) \/ SeedReturn(w)
        \/ SeedDelete(w) \/ SeedDeleteCommit(w)

SeedSpec == Init /\ [][SeedNext]_vars

(***************************************************************************)
(* The report and clear commands: /month, /prev_month, /clear and          *)
(* /confirmclear, handled by plain CommandHandlers.  The text of a command *)
(* update is what follows the command; context.args are its words.         *)
(***************************************************************************)
\* str.split(): the words between runs of whitespace
RECURSIVE Words(_)
Words(text) ==
    LET s == LStrip(text)
        n == IF \E i \in 1..Len(s) : s[i] \in Whitespace
             THEN (CHOOSE i \in 1..Len(s) :
                      /\ s[i] \in Whitespace
                      /\ \A j \in 1..(i - 1) : s[j] \notin Whitespace) - 1
             ELSE Len(s)
    IN  IF s = <<>> THEN <<>>
        ELSE <<SubSeq(s, 1, n)>> \o Words(SubSeq(s, n + 1, Len(s)))

\* str.split(sep) for a separator of one character
RECURSIVE Split(_, _)
Split(text, sep) ==
    IF \E i \in 1..Len(text) : text[i] = sep
    THEN LET n == CHOOSE i \in 1..Len(text) :
                     /\ text[i] = sep
                     /\ \A j \in 1..(i - 1) : text[j] # sep
         IN  <<SubSeq(text, 1, n - 1)>>
                 \o Split(SubSeq(text, n + 1, Len(text)), sep)
    ELSE <<text>>

\* int(text): surrounding whitespace, a sign, digits ("_" between digits)
ParseInt(text) ==
    LET s  == Strip(text)
        i0 == IF Len(s) > 0 /\ s[1] \in {"+", "-"} THEN 2 ELSE 1
        sg == IF Len(s) > 0 /\ s[1] = "-" THEN -1 ELSE 1
        d  == ScanDigits(s, i0, 0, 0)
    IN  IF d.n = 0 \/ d.next # Len(s) + 1
        THEN [ok |-> FALSE, val |-> 0]
        ELSE [ok |-> TRUE, val |-> sg * d.val]

\* f"{n:02d}"
Format02d(n) == IF n \in 0..9 THEN <<"0">> \o IntText(n) ELSE IntText(n)

\* SELECT ... FROM expenses WHERE date LIKE f"{month:02d}/%/{year}"
get_monthly_expenses(table, month, year) ==
    LET before == Format02d(month) \o <<"/">>
        after  == <<"/">> \o IntText(year)
    IN  SelectSeq(table, LAMBDA r :
            /\ Len(r.date) >= Len(before) + Len(after)
            /\ StartsWith(r.date, before)
            /\ SubSeq(r.date, Len(r.date) - Len(after) + 1, Len(r.date))
                   = after)

\* DELETE FROM expenses
clear_all_expenses(table) == <<>>

\* DELETE FROM expenses WHERE user_id = %s
clear_expenses(table, user_id) ==
    SelectSeq(table, LAMBDA r : r.user_id # user_id)

\* the month before, without the step back over the turn of the year
PreviousMonthSameYear(current_month, current_year) ==
    [month |-> current_month - 1, year |-> current_year]

\* previous_month, previous_year of report and previous_month_report
PreviousMonth(current_month, current_year) ==
    [month |-> IF current_month > 1 THEN current_month - 1 ELSE 12,
     year  |-> IF current_month > 1 THEN current_year
               ELSE current_year - 1]

\* the CommandHandlers added before the conversation handlers, and after
HandlersBefore ==
    <<CommandHandler("start", "start"),
      CommandHandler("help", "help_command"),
      CommandHandler("report", "report"),
      CommandHandler("prev_month", "previous_month_report"),
      CommandHandler("clear", "clear"),
      CommandHandler("confirmclear", "confirm_clear"),
      CommandHandler("categories", "list_categories")>>

HandlersAfter == <<CommandHandler("month", "monthly_report")>>

\* Application.process_update over all handlers of group 0, in the order
\* of app.add_handler: the callback of the first that accepts the update
DispatchAll(convs, upd) ==
    LET before == FirstMatch(HandlersBefore, upd)
        conv   == Dispatch(convs, upd).callback
    IN  IF before # NoHandler THEN before
        ELSE IF conv # NoHandler THEN conv
        ELSE FirstMatch(HandlersAfter, upd)

\* what the two report commands and the clear commands leave alone
CommandFrame == <<conversations, user_temp_data, categories, world, job, pc,
                  chunk_text, sent, workers, listed>>

\* monthly_report: the reply that ends it and the store query it made
monthly_report(upd) ==
    LET args  == Words(upd.text)
        parts == Split(args[1], "/")
        month == ParseInt(parts[1])
        year  == ParseInt(parts[2])
    IN  IF Len(args) # 1
        THEN /\ last' = Outcome(upd, "monthly_report", "usage", FALSE)
             /\ queried' = <<>>
        ELSE IF Len(parts) # 2 \/ ~month.ok \/ ~year.ok
        THEN /\ last' = Outcome(upd, "monthly_report", "format_error",
                                FALSE)
             /\ queried' = <<>>
        ELSE /\ queried' = <<[month |-> month.val, year |-> year.val]>>
             /\ last' = Outcome(upd, "monthly_report",
                    IF get_monthly_expenses(expenses, month.val, year.val)
                           = <<>>
                    THEN "none_found" ELSE "report", FALSE)

previous_month_report(upd) ==
    LET previous == PreviousMonth(world.now.month, world.now.year)
    IN  /\ queried' = <<previous>>
        /\ last' = Outcome(upd, "previous_month_report",
               IF get_monthly_expenses(expenses, previous.month,
                                       previous.year) = <<>>
               THEN "none_found" ELSE "report", FALSE)

clear(upd) ==
    /\ last' = Outcome(upd, "clear", "confirm_prompt", FALSE)
    /\ asked_clear' = asked_clear \cup {upd.key[2]}
    /\ UNCHANGED <<expenses, queried>>

confirm_clear(upd) ==
    /\ expenses' = clear_all_expenses(expenses)
    /\ last' = Outcome(upd, "confirm_clear", "cleared", FALSE)
    /\ UNCHANGED <<asked_clear, queried>>

\* what follows /month in the updates of the model
MonthTexts ==
    { <<"1", "3", "/", "2", "0", "2", "5">>,
      <<"0", "4", "/", "2", "0", "2", "5">>,
      <<" ", "4", "/", "2", "0", "2", "5">>,
      <<"1", "2", "/", "2", "0", "2", "5">>,
      <<"0", "/", "2", "0", "2", "5">>,
      <<"a", "b", "/", "2", "0", "2", "5">>,
      <<"0", "4">>,
      <<"0", "4", "/", "1", "5", "/", "2", "0", "2", "5">>,
      <<"0", "4", "/", "2", "0", "2", "5", " ", "x">>,
      <<>> }

MonthlyReport ==
    /\ \E k \in GroupKeys, t \in MonthTexts :
           LET upd == [Command(k, "month") EXCEPT !.text = t]
           IN  /\ DispatchAll(conversations, upd) = "monthly_report"
               /\ monthly_report(upd)
    /\ UNCHANGED <<expenses, asked_clear>>
    /\ UNCHANGED CommandFrame

PreviousMonthReport ==
    /\ \E k \in GroupKeys :
           LET upd == Command(k, "prev_month")
           IN  /\ DispatchAll(conversations, upd) = "previous_month_report"
               /\ previous_month_report(upd)
    /\ UNCHANGED <<expenses, asked_clear>>
    /\ UNCHANGED CommandFrame

Clear ==
    /\ \E k \in GroupKeys :
           LET upd == Command(k, "clear")
           IN  DispatchAll(conversations, upd) = "clear" /\ clear(upd)
    /\ UNCHANGED CommandFrame

ConfirmClear ==
    /\ \E k \in GroupKeys :
           LET upd == Command(k, "confirmclear")
           IN  /\ DispatchAll(conversations, upd) = "confirm_clear"
               /\ confirm_clear(upd)
    /\ UNCHANGED CommandFrame

\* the days on which the commands are sent
Calendars ==
    { [now |-> [year |-> y, month |-> m, day |-> 15],
       account |-> [u \in Users |->
           [username |-> <<"a", "l", "i", "c", "e">>,
            first_name |-> <<"A", "l">>]]] : y \in {2025, 2026}, m \in 1..12 }

\* expenses stored by category_selected on earlier days
StoredExpenses ==
    LET row(u, d) == [user_id |-> u,
                      amount |-> [kind |-> "float", m |-> 125, e |-> -1],
                      category |-> default_categories[1],
                      date |-> d,
                      username |-> <<"a", "l", "i", "c", "e">>]
        april    == row(42, Strftime([year |-> 2025, month |-> 4, day |-> 15]))
        december == row(7, Strftime([year |-> 2025, month |-> 12, day |-> 31]))
    IN  { <<>>, <<april>>, <<april, december>> }

CommandInit ==
    /\ conversations = [n \in ConversationNames |-> [k \in AllKeys |-> END]]
    /\ user_temp_data = <<>>
    /\ categories = <<>>
    /\ last = Outcome(Command(<<0, 0>>, ""), NoHandler, "", FALSE)
    /\ expenses \in StoredExpenses
    /\ world \in Calendars
    /\ job = NoJob
    /\ pc = 0
    /\ chunk_text = <<>>
    /\ sent = <<>>
    /\ Quiet

CommandNext ==
    \/ MonthlyReport
    \/ PreviousMonthReport
    \/ Clear
    \/ ConfirmClear

CommandSpec == CommandInit /\ [][CommandNext]_vars

(***************************************************************************)
(* The store function clear_expenses called as it stands.  No handler of   *)
(* main() calls it, so that no update makes the bot take this step: it is  *)
(* a step of a caller of the function, kept apart from the specifications  *)
(* of the bot.                                                             *)
(***************************************************************************)
ClearExpenses ==
    /\ \E user_id \in Users :
           expenses' = clear_expenses(expenses, user_id)
    /\ UNCHANGED <<last, queried, asked_clear>>
    /\ UNCHANGED CommandFrame

StoreNext == ClearExpenses

StoreSpec == CommandInit /\ [][StoreNext]_vars

(***************************************************************************)
(* The expense dialogue of two users in one group chat, their updates      *)
(* handled one at a time in any order.  Each user submits an amount of     *)
(* their own, so that a row shows whose amount it carries.                 *)
(***************************************************************************)
IsoTexts(k) ==
    IF k[2] = 42 THEN { <<"1", "2", ".", "5", "0">>, <<" ", "a", "b", "c">> }
    ELSE { <<"7">>, <<" ", "a", "b", "c">> }

IsoAddExpense ==
    /\ \E k \in GroupKeys :
           LET upd == Command(k, "add")
           IN  Routed(upd, "add_expense") /\ add_expense(Via(upd), upd)
    /\ UNCHANGED Frame

IsoAmountEntered ==
    /\ \E k \in GroupKeys :
         \E t \in IsoTexts(k), fault \in {"none", "get_categories"} :
           LET upd == TextMessage(k, t)
           IN  Routed(upd, "amount_entered")
               /\ amount_entered(Via(upd), upd, fault)
    /\ UNCHANGED Frame

IsoCategorySelected ==
    /\ \E k \in GroupKeys, d \in Buttons(cat_),
          fault \in {"none", "insert_expense"} :
           LET upd == CallbackQuery(k, d)
           IN  /\ Routed(upd, "category_selected")
               /\ Len(expenses) < MaxExpenses
               /\ category_selected(Via(upd), upd, fault)
    /\ UNCHANGED Frame

IsoCancel ==
    /\ \E k \in GroupKeys :
           LET upd == Command(k, "cancel")
           IN  Routed(upd, "cancel") /\ cancel(Via(upd), upd)
    /\ UNCHANGED Frame

IsoNext ==
    \/ IsoAddExpense
    \/ IsoAmountEntered
    \/ IsoCategorySelected
    \/ IsoCancel

IsoSpec == Init /\ [][IsoNext]_vars

(***************************************************************************)
(* The category commands of one user in one chat: /start, /categories,     *)
(* /delete_category and the button that confirms a deletion.  Every        *)
(* category shown can be deleted, so that the store can be emptied.        *)
(***************************************************************************)
\* SELECT category FROM categories WHERE user_id = %s, then the seeding of
\* an empty result with the defaults for this user
get_user_categories(table, user_id) ==
    LET rows == SelectSeq(table, LAMBDA r : r.user_id = user_id)
    IN  IF rows = <<>>
        THEN [table |-> InsertDefaults(table, user_id, 1),
              categories |-> default_categories]
        ELSE [table |-> table,
              categories |-> [i \in 1..Len(rows) |-> rows[i].category]]

start(upd) ==
    /\ categories' = get_user_categories(categories, upd.key[2]).table
    /\ last' = Outcome(upd, "start", "hello", FALSE)
    /\ listed' = <<>>
    /\ UNCHANGED <<conversations, user_temp_data, expenses>>

list_categories(upd) ==
    LET got == get_categories(categories)
    IN  /\ categories' = got.table
        /\ listed' = got.categories
        /\ last' = Outcome(upd, "list_categories", "all_categories", FALSE)
        /\ UNCHANGED <<conversations, user_temp_data, expenses>>

\* what the category commands leave alone
CategoryFrame == <<world, job, pc, chunk_text, sent, workers, queried,
                   asked_clear>>

\* the chat and the user of the category commands
CategoryKey == <<1, 42>>

\* the delete buttons of the keyboard built from the categories now stored
DeleteButtons ==
    LET shown == Distinct([i \in 1..Len(categories) |->
                              categories[i].category])
    IN  {del_ \o shown[i] : i \in 1..Len(shown)}

Start ==
    /\ LET upd == Command(CategoryKey, "start")
       IN  DispatchAll(conversations, upd) = "start" /\ start(upd)
    /\ UNCHANGED CategoryFrame

ListCategories ==
    /\ LET upd == Command(CategoryKey, "categories")
       IN  /\ DispatchAll(conversations, upd) = "list_categories"
           /\ list_categories(upd)
    /\ UNCHANGED CategoryFrame

OfferDeletion ==
    /\ \E fault \in {"none", "get_categories"} :
           LET upd == Command(CategoryKey, "delete_category")
           IN  /\ DispatchAll(conversations, upd) = "delete_category_command"
               /\ delete_category_command(Via(upd), upd, fault)
    /\ listed' = <<>>
    /\ UNCHANGED CategoryFrame

ConfirmDeletion ==
    /\ \E d \in DeleteButtons, fault \in {"none", "delete_category"} :
           LET upd == CallbackQuery(CategoryKey, d)
           IN  /\ DispatchAll(conversations, upd) = "confirm_delete_category"
               /\ confirm_delete_category(Via(upd), upd, fault)
    /\ listed' = <<>>
    /\ UNCHANGED CategoryFrame

CategoryNext ==
    \/ Start
    \/ ListCategories
    \/ OfferDeletion
    \/ ConfirmDeletion

CategorySpec == Init /\ [][CategoryNext]_vars

(***************************************************************************)
(* What the properties are stated against: the values the texts denote and *)
(* the date texts of the two days, written out.                            *)
(***************************************************************************)
\* the decimal number each numeric text of Texts denotes; the other texts
\* of Texts denote none: the blank text and " abc", on which float() raises
\* ValueError, and "nan", for which float() returns nan
Denotes(t) ==
    CASE t = <<"1", "2", ".", "5", "0">> -> [kind |-> "float", m |-> 125, e |-> -1]
      [] t = <<"7">> -> [kind |-> "float", m |-> 7, e |-> 0]

NumericTexts == { <<"1", "2", ".", "5", "0">>, <<"7">> }

\* MM/DD/YYYY of the two days
DateText(now) ==
    CASE now = [year |-> 2025, month |-> 4, day |-> 15] ->
            <<"0", "4", "/", "1", "5", "/", "2", "0", "2", "5">>
      [] now = [year |-> 2026, month |-> 1, day |-> 2] ->
            <<"0", "1", "/", "0", "2", "/", "2", "0", "2", "6">>

\* the label of who recorded an expense: the username, else the first name
DisplayName(u) ==
    IF world.account[u].username = <<>> THEN world.account[u].first_name
    ELSE world.account[u].username

ExpenseFlow(k) == conversations["add_expense_handler"][k]

ActiveFlows(k) == {n \in ConversationNames : conversations[n][k] # END}

\* the step handled an update with this callback
Ran(callback) == last'.callback = callback

(***************************************************************************)
(* C1.  When category_selected completes for a contributor whose session   *)
(* holds a pending amount, exactly one row is appended to expenses, with   *)
(* (the contributor's id, that pending amount, the category of the pressed *)
(* button, today's date as MM/DD/YYYY, the display name); the session is   *)
(* removed and the expense flow of the key has no state.  No step of any   *)
(* other callback, and no category_selected that raised, changes expenses. *)
(***************************************************************************)
C1_Step ==
    LET k == last'.update.key
        u == k[2]
    IN  /\ (Ran("category_selected") /\ ~last'.raised
                /\ u \in DOMAIN user_temp_data)
           => /\ Len(expenses') = Len(expenses) + 1
              /\ SubSeq(expenses', 1, Len(expenses)) = expenses
              /\ LET row == expenses'[Len(expenses')]
                 IN  /\ row.user_id = u
                     /\ row.amount = user_temp_data[u].amount
                     /\ cat_ \o row.category = last'.update.data
                     /\ row.date = DateText(world.now)
                     /\ row.username = DisplayName(u)
              /\ u \notin DOMAIN user_temp_data'
              /\ conversations'["add_expense_handler"][k] = END
        /\ (~Ran("category_selected") \/ last'.raised)
           => expenses' = expenses

C1_SelectCategoryPersistsOneExpense == [][C1_Step]_vars

C1_Witness ==
    /\ last.callback = "category_selected"
    /\ ~last.raised
    /\ Len(expenses) = 1
    /\ expenses[1].amount = Denotes(<<"1", "2", ".", "5", "0">>)
    /\ expenses[1].category = <<"a", "b", "c">>
    /\ expenses[1].username = <<"B", "o", "b">>
    /\ 42 \notin DOMAIN user_temp_data

(***************************************************************************)
(* C2.  category_selected for a contributor without an entry in            *)
(* user_temp_data signals that the session expired and leaves expenses     *)
(* unchanged.                                                              *)
(***************************************************************************)
C2_Step ==
    (Ran("category_selected") /\ last'.update.key[2] \notin DOMAIN user_temp_data)
    => /\ expenses' = expenses
       /\ last'.reply = "session_expired"

C2_NoSessionNoExpense == [][C2_Step]_vars

(***************************************************************************)
(* C3.  After amount_entered has handled a numeric text, the session of    *)
(* the contributor holds the number the text denotes, whatever it held     *)
(* before, and, unless the store call raised, the expense flow of the key  *)
(* is in CATEGORY.                                                         *)
(***************************************************************************)
C3_SubmitAmountStoresParsedValue ==
    (last.callback = "amount_entered" /\ last.update.text \in NumericTexts)
    => LET k == last.update.key
       IN  /\ k[2] \in DOMAIN user_temp_data
           /\ user_temp_data[k[2]].amount = Denotes(last.update.text)
           /\ ~last.raised => ExpenseFlow(k) = CATEGORY

C3_Witness ==
    /\ last.callback = "amount_entered"
    /\ ~last.raised
    /\ last.update.text = <<"1", "2", ".", "5", "0">>
    /\ ExpenseFlow(last.update.key) = CATEGORY
    /\ user_temp_data[42].amount = [kind |-> "float", m |-> 125, e |-> -1]

(***************************************************************************)
(* C4.  amount_entered on a text that does not denote a decimal number     *)
(* replies with the request for a valid number, raises nothing, leaves the *)
(* expense flow in AMOUNT and changes neither the sessions nor the two     *)
(* tables.                                                                 *)
(***************************************************************************)
C4_Step ==
    (Ran("amount_entered") /\ last'.update.text \in Texts \ NumericTexts)
    => /\ last'.reply = "enter_valid_number"
       /\ ~last'.raised
       /\ ExpenseFlow(last'.update.key) = AMOUNT
       /\ conversations' = conversations
       /\ UNCHANGED <<user_temp_data, expenses, categories>>

C4_InvalidAmountReprompts == [][C4_Step]_vars

\* the same for the texts on which float() raises ValueError, which leaves
\* out the text "nan": float() returns a value for it
C4_RejectedStep ==
    (Ran("amount_entered") /\ ParseFloat(last'.update.text) = ValueError)
    => /\ last'.reply = "enter_valid_number"
       /\ ~last'.raised
       /\ ExpenseFlow(last'.update.key) = AMOUNT
       /\ conversations' = conversations
       /\ UNCHANGED <<user_temp_data, expenses, categories>>

C4_RejectedTextReprompts == [][C4_RejectedStep]_vars

\* a blank text was answered with the request for a valid number, with an
\* amount entered earlier still in the session
C4_Witness ==
    /\ last.callback = "amount_entered"
    /\ last.update.text = <<" ">>
    /\ last.reply = "enter_valid_number"
    /\ ExpenseFlow(last.update.key) = AMOUNT
    /\ 42 \in DOMAIN user_temp_data

(***************************************************************************)
(* C5.  After add_expense (/add) the expense flow of the key is in AMOUNT, *)
(* nothing was raised, and user_temp_data holds no amount of the           *)
(* contributor.                                                            *)
(***************************************************************************)
C5_AddDiscardsPriorSession ==
    last.callback = "add_expense"
    => /\ ~last.raised
       /\ ExpenseFlow(last.update.key) = AMOUNT
       /\ last.update.key[2] \notin DOMAIN user_temp_data

(***************************************************************************)
(* C6.  A step of cancel raises nothing, leaves the contributor without a  *)
(* session entry and the expense flow of the key without a state, and      *)
(* changes neither table; a cancel handled right after a cancel of the     *)
(* same key changes neither the sessions nor the expense flow.             *)
(***************************************************************************)
C6_Step ==
    LET k == last'.update.key
    IN  Ran("cancel")
        => /\ ~last'.raised
           /\ last'.reply = "cancelled"
           /\ k[2] \notin DOMAIN user_temp_data'
           /\ conversations'["add_expense_handler"][k] = END
           /\ UNCHANGED <<expenses, categories>>
           /\ (last.callback = "cancel" /\ last.update.key = k)
              => /\ user_temp_data' = user_temp_data
                 /\ conversations'["add_expense_handler"]
                        = conversations["add_expense_handler"]

C6_CancelIdempotent == [][C6_Step]_vars

\* a cancel has ended the expense dialogue and removed nothing it should
\* keep, and a second cancel of the same key will be handled
C6_Witness ==
    /\ last.callback = "cancel"
    /\ ExpenseFlow(last.update.key) = END
    /\ Len(expenses) = 1
    /\ Dispatch(conversations, Command(last.update.key, "cancel")).callback
           = "cancel"

(***************************************************************************)
(* C7.  After one /cancel of a contributor has been handled, no flow of    *)
(* that key has a state.                                                   *)
(***************************************************************************)
C7_CancelAbortsEveryFlow ==
    last.callback = "cancel" => ActiveFlows(last.update.key) = {}

(***************************************************************************)
(* C8.  Whenever some flow of a key has a state, /cancel of that key is    *)
(* dispatched to cancel, and every handled /cancel leaves exactly one flow *)
(* of the key fewer with a state: after at most three /cancel in a row all *)
(* flows of the key are idle.                                              *)
(***************************************************************************)
C8_CancelAccepted ==
    \A k \in Keys :
        ActiveFlows(k) # {}
        => Dispatch(conversations, Command(k, "cancel")).callback = "cancel"

C8_Step ==
    Ran("cancel")
    => LET k == last'.update.key
       IN  /\ ActiveFlows(k) # {}
           /\ Cardinality({n \in ConversationNames : conversations'[n][k] # END})
                  = Cardinality(ActiveFlows(k)) - 1

C8_CancelAlwaysLeadsToIdle == [](C8_CancelAccepted) /\ [][C8_Step]_vars

\* several flows of one key were active: a /cancel has been handled, the
\* expense and category-name flows are idle and the deletion flow still
\* waits, so a further /cancel is needed and will be accepted
C8_Witness ==
    /\ last.callback = "cancel"
    /\ conversations["add_expense_handler"][last.update.key] = END
    /\ conversations["add_category_handler"][last.update.key] = END
    /\ conversations["delete_category_handler"][last.update.key]
           = CONFIRM_DELETE

(***************************************************************************)
(* C9.  A step of amount_entered or category_selected in which a store     *)
(* call raised leaves the conversation states, the sessions and expenses   *)
(* as they were.                                                           *)
(***************************************************************************)
C9_Step ==
    (last'.raised /\ (Ran("amount_entered") \/ Ran("category_selected")))
    => /\ conversations' = conversations
       /\ user_temp_data' = user_temp_data
       /\ expenses' = expenses

C9_StoreFailureLeavesSessionIntact == [][C9_Step]_vars

(***************************************************************************)
(* C10.  Every message a chunker sends has at most max_chunk_length        *)
(* characters.  As claimed: for every header, continuation header and list *)
(* of lines.  As it holds: whenever the header alone, and the continuation *)
(* header followed by any one line of the list, have at most               *)
(* max_chunk_length characters.                                            *)
(***************************************************************************)
SegmentsBounded == \A j \in 1..Len(sent) : Len(sent[j]) <= max_chunk_length

C10_EverySegmentBounded == SegmentsBounded

EveryLineFits ==
    /\ Len(Header(job.chunker, job.month, job.year)) <= max_chunk_length
    /\ \A j \in 1..Len(job.rows) :
          Len(ContinuationHeader(job.chunker, job.month, job.year))
              + Len(Line(job.chunker, job.rows[j])) <= max_chunk_length

C10_SegmentsBoundedWhenLinesFit == EveryLineFits => SegmentsBounded

\* a chunker has returned after sending three messages, one of them of
\* exactly max_chunk_length characters
C10_Witness ==
    /\ EveryLineFits
    /\ pc = Returned_pc
    /\ Len(sent) = 3
    /\ \E j \in 1..Len(sent) : Len(sent[j]) = max_chunk_length

(***************************************************************************)
(* Reading the messages of a chunker back: the header a message starts     *)
(* with, the text after it, and the rows whose lines that text is made of. *)
(***************************************************************************)
\* the header message j has to start with
HeadOf(j) ==
    IF j = 1 THEN Header(job.chunker, job.month, job.year)
    ELSE ContinuationHeader(job.chunker, job.month, job.year)

HeadOk(j) == StartsWith(sent[j], HeadOf(j))

Body(j) == DropPrefix(sent[j], Len(HeadOf(j)))

\* how many lines of the rows i, i + 1, ... the text is the concatenation
\* of; -1 if it is not the concatenation of whole lines of these rows
RECURSIVE Items(_, _)
Items(text, i) ==
    IF text = <<>> THEN 0
    ELSE IF i > Len(job.rows) THEN -1
    ELSE LET l == Line(job.chunker, job.rows[i])
         IN  IF StartsWith(text, l)
             THEN LET r == Items(DropPrefix(text, Len(l)), i + 1)
                  IN  IF r < 0 THEN -1 ELSE r + 1
             ELSE -1

\* the row whose line is the first of message j, the rows being read off
\* message after message
RECURSIVE First(_)
First(j) ==
    IF j = 1 THEN 1 ELSE First(j - 1) + Items(Body(j - 1), First(j - 1))

(***************************************************************************)
(* C11.  Every message sent consists of its header and whole lines of      *)
(* consecutive rows, the rows of a message following those of the message  *)
(* before it; once the chunker has returned, the messages carry the lines  *)
(* of all rows, each once, in the order of the rows.                       *)
(***************************************************************************)
C11_LinesWholeOnceInOrder ==
    /\ \A j \in 1..Len(sent) : HeadOk(j) /\ Items(Body(j), First(j)) >= 0
    /\ pc = Returned_pc => First(Len(sent) + 1) = Len(job.rows) + 1

\* a chunker has returned after two messages, the first with the lines of
\* rows 1 and 2, the second with the line of row 3
C11_Witness ==
    /\ pc = Returned_pc
    /\ Len(job.rows) = 3
    /\ Len(sent) = 2
    /\ Items(Body(1), 1) = 2
    /\ Items(Body(2), 3) = 1

(***************************************************************************)
(* C12.  No message sent consists of a header alone: every message carries *)
(* the line of at least one row.                                           *)
(***************************************************************************)
C12_NoBareHeader ==
    \A j \in 1..Len(sent) : HeadOk(j) /\ Items(Body(j), First(j)) >= 1

(***************************************************************************)
(* C13.  The first message starts with the header; every later message     *)
(* starts with the continuation header, followed by the line of the first  *)
(* row not carried by the messages before it, and that line added to the   *)
(* message before it would have exceeded max_chunk_length.                 *)
(***************************************************************************)
C13_ContinuationHeaderBeforeOverflowingLine ==
    \A j \in 1..Len(sent) :
        /\ HeadOk(j)
        /\ j > 1 =>
              /\ First(j) \in 1..Len(job.rows)
              /\ StartsWith(Body(j), Line(job.chunker, job.rows[First(j)]))
              /\ Len(sent[j - 1])
                    + Len(Line(job.chunker, job.rows[First(j)]))
                        > max_chunk_length

\* a chunker has returned after three messages, the third starting with
\* the continuation header and the line of row 3
C13_Witness ==
    /\ pc = Returned_pc
    /\ Len(sent) = 3
    /\ First(3) = 3
    /\ StartsWith(sent[3],
                  ContinuationHeader(job.chunker, job.month, job.year)
                      \o Line(job.chunker, job.rows[3]))

(***************************************************************************)
(* C14.  new_category_name with a name that the list of get_categories     *)
(* holds replies that the category already exists and leaves categories as *)
(* it was; with a name the list does not hold it replies that the category *)
(* was added and categories then holds exactly one row with that name.  So *)
(* no name entered through the dialogue is ever carried by two rows.       *)
(* The list is the one the handler tests the name against: the distinct    *)
(* names of the rows, or the seven defaults when there is no row.          *)
(***************************************************************************)
C14_Step ==
    LET name == Strip(last'.update.text)
    IN  (Ran("new_category_name") /\ ~last'.raised /\ name # <<>>)
        => IF Contains(get_categories(categories).categories, name)
           THEN /\ last'.reply = "already_exists"
                /\ categories' = categories
           ELSE /\ last'.reply = "added"
                /\ RowsNamed(categories', name) = 1

C14_OneRowPerAddedName ==
    \A t \in NameTexts : RowsNamed(categories, Strip(t)) <= 1

C14_DuplicateNameRejected ==
    [](C14_OneRowPerAddedName) /\ [][C14_Step]_vars

\* the second default name was entered and refused, and categories holds
\* the seven default rows: the state after the refusal on the table
\* without rows, which stored them
C14_Witness ==
    /\ last.callback = "new_category_name"
    /\ last.reply = "already_exists"
    /\ Strip(last.update.text) = default_categories[2]
    /\ categories = get_categories(<<>>).table

\* what holds of a refusal: the reply is "already exists" exactly when the
\* list holds the name, no row with the name is stored by it, and
\* categories changes only from the table without rows to the seven
\* default rows
C14_RefusalStep ==
    LET name == Strip(last'.update.text)
        got  == get_categories(categories)
    IN  (Ran("new_category_name") /\ ~last'.raised /\ name # <<>>)
        => IF Contains(got.categories, name)
           THEN /\ last'.reply = "already_exists"
                /\ categories' = got.table
                /\ categories # <<>> => categories' = categories
                /\ RowsNamed(categories', name) = 1
           ELSE /\ last'.reply = "added"
                /\ RowsNamed(categories', name) = 1

C14_RefusalStoresOnlyDefaults == [][C14_RefusalStep]_vars

(***************************************************************************)
(* C15.  get_categories on the table without rows stores exactly the seven *)
(* default names, in their order, for owner 0 and returns the default      *)
(* list; on a table with rows it stores nothing and returns only names of  *)
(* rows.  In the dialogues: categories leaves the empty table only by this *)
(* seeding, and amount_entered and delete_category_command, which call     *)
(* nothing else of the store, leave a table with rows as it is.            *)
(***************************************************************************)
SevenDefaults ==
    [i \in 1..7 |-> [user_id |-> 0, category |-> default_categories[i]]]

C15_Result ==
    LET r == get_categories(categories)
    IN  IF categories = <<>>
        THEN r.table = SevenDefaults /\ r.categories = default_categories
        ELSE /\ r.table = categories
             /\ r.categories # <<>>
             /\ \A i \in 1..Len(r.categories) :
                    Stored(categories, r.categories[i])

C15_Step ==
    /\ (categories = <<>> /\ categories' # <<>>)
       => /\ last'.callback \in {"amount_entered", "new_category_name",
                                   "delete_category_command"}
          /\ SubSeq(categories', 1, 7) = SevenDefaults
    /\ (categories # <<>> /\ last'.callback \in {"amount_entered",
                                                  "delete_category_command"})
       => categories' = categories

C15_SeedsIffEmpty == [](C15_Result) /\ [][C15_Step]_vars

\* amount_entered has listed the categories of the empty table, which now
\* holds the seven default rows
C15_Witness ==
    /\ last.callback = "amount_entered"
    /\ ~last.raised
    /\ categories = SevenDefaults

(***************************************************************************)
(* C16.  Whatever two workers do in get_categories, interleaved or not,    *)
(* no list get_categories returns names a category twice, also when both   *)
(* workers seeded the empty table and it holds every default name twice.   *)
(***************************************************************************)
NoDuplicates(list) ==
    \A i, j \in 1..Len(list) : list[i] = list[j] => i = j

C16_ResultsHaveNoDuplicates ==
    \A w \in Workers : NoDuplicates(workers[w].result)

\* both workers seeded the empty table, which holds 14 rows, and a later
\* call of a worker returned the seven names the SELECT DISTINCT gave it
C16_Witness ==
    /\ Len(categories) = 14
    /\ \E w \in Workers :
           /\ workers[w].pc = "idle"
           /\ workers[w].calls = 2
           /\ workers[w].rows # <<>>
           /\ workers[w].result = default_categories

(***************************************************************************)
(* C17.  /month with a month number outside 1..12 (for example 13/2025)   *)
(* is answered with the format error and issues no store query:           *)
(* get_monthly_expenses is called only when the parsed month is in 1..12. *)
(***************************************************************************)
C17_MonthOutOfRangeRejected ==
    last.callback = "monthly_report" =>
        LET args  == Words(last.update.text)
            parts == Split(args[1], "/")
            month == ParseInt(parts[1])
        IN  /\ \A i \in 1..Len(queried) : queried[i].month \in 1..12
            /\ (Len(args) = 1 /\ Len(parts) = 2 /\ month.ok
                    /\ month.val \notin 1..12)
                   => (last.reply = "format_error" /\ queried = <<>>)

\* /month 13/2025 answered "nothing found" after querying month 13
C17_Witness ==
    /\ last.callback = "monthly_report"
    /\ Words(last.update.text) = <<<<"1", "3", "/", "2", "0", "2", "5">>>>
    /\ last.reply = "none_found"
    /\ queried = <<[month |-> 13, year |-> 2025]>>

\* text that is no MM/YYYY at all is answered with the format error, and
\* a month in 1..12 is queried as given
C17_MalformedRejected ==
    last.callback = "monthly_report" =>
        LET args  == Words(last.update.text)
            parts == Split(args[1], "/")
        IN  /\ Len(args) # 1 => (last.reply = "usage" /\ queried = <<>>)
            /\ (Len(args) = 1 /\ (Len(parts) # 2
                    \/ ~ParseInt(parts[1]).ok \/ ~ParseInt(parts[2]).ok))
                   => (last.reply = "format_error" /\ queried = <<>>)

(***************************************************************************)
(* C18.  Bulk deletion is a two-step confirmation: /clear alone deletes   *)
(* nothing, and expense records are deleted only by a /confirmclear that  *)
(* was preceded by a /clear from the same contributor.                    *)
(***************************************************************************)
C18_Step ==
    /\ Ran("clear") => expenses' = expenses
    /\ expenses' # expenses =>
           /\ Ran("confirm_clear")
           /\ last'.update.key[2] \in asked_clear

C18_DeletionNeedsClearFirst == [][C18_Step]_vars

\* the expenses are gone and nobody has sent /clear
C18_Witness ==
    /\ last.callback = "confirm_clear"
    /\ asked_clear = {}
    /\ expenses = <<>>

\* /clear alone deletes nothing, and only /confirmclear deletes
C18_ClearAloneDeletesNothing ==
    [][/\ Ran("clear") => expenses' = expenses
       /\ expenses' # expenses => Ran("confirm_clear")]_vars

(***************************************************************************)
(* C19.  The previous month, as computed by /report and /prev_month: for  *)
(* current month m in 2..12 of year Y it is (m - 1, Y), for m = 1 it is   *)
(* (12, Y - 1); its month is always in 1..12.  /prev_month queries the    *)
(* store for exactly that month.                                          *)
(***************************************************************************)
C19_PreviousMonthRollsOver ==
    LET m == world.now.month
        y == world.now.year
        previous == PreviousMonth(m, y)
    IN  /\ previous.month \in 1..12
        /\ m \in 2..12 => previous = [month |-> m - 1, year |-> y]
        /\ m = 1 => previous = [month |-> 12, year |-> y - 1]
        /\ last.callback = "previous_month_report" =>
               queried = <<IF m = 1 THEN [month |-> 12, year |-> y - 1]
                           ELSE [month |-> m - 1, year |-> y]>>

\* /prev_month sent in January 2026 reports December 2025
C19_Witness ==
    /\ last.callback = "previous_month_report"
    /\ world.now.month = 1
    /\ world.now.year = 2026
    /\ queried = <<[month |-> 12, year |-> 2025]>>
    /\ last.reply = "report"

(***************************************************************************)
(* C20.  Contributor isolation under any interleaving: an operation of    *)
(* the expense dialogue (/add, an amount, a category button, /cancel) by  *)
(* one contributor never changes another contributor's dialogue state or  *)
(* session entry, and the expense a contributor's category button stores  *)
(* carries the amount that contributor submitted.                         *)
(***************************************************************************)
C20_Step ==
    \A b \in Users \ {last'.update.key[2]} :
        /\ \A n \in ConversationNames, k \in AllKeys :
               k[2] = b => conversations'[n][k] = conversations[n][k]
        /\ b \in DOMAIN user_temp_data' <=> b \in DOMAIN user_temp_data
        /\ b \in DOMAIN user_temp_data =>
               user_temp_data'[b] = user_temp_data[b]

C20_OwnAmountStored ==
    \A i \in 1..Len(expenses) :
        \E k \in GroupKeys : \E t \in IsoTexts(k) :
            /\ k[2] = expenses[i].user_id
            /\ ParseFloat(t) # ValueError
            /\ expenses[i].amount = ParseFloat(t)

C20_ContributorsIsolated == [](C20_OwnAmountStored) /\ [][C20_Step]_vars

\* user 7 has stored their 7 while user 42 was choosing a category for
\* their 12.50
C20_Witness ==
    /\ Len(expenses) = 1
    /\ expenses[1].user_id = 7
    /\ expenses[1].amount = ParseFloat(<<"7">>)
    /\ last.callback = "category_selected"
    /\ conversations["add_expense_handler"][<<1, 42>>] = CATEGORY
    /\ 42 \in DOMAIN user_temp_data
    /\ user_temp_data[42].amount = ParseFloat(<<"1", "2", ".", "5", "0">>)
    /\ 7 \notin DOMAIN user_temp_data

(***************************************************************************)
(* C21.  Whenever the expense flow of a key waits for a category, the     *)
(* sessions hold a pending amount for the key's contributor, and it is an *)
(* amount amount_entered accepted; so a stored expense never carries an   *)
(* amount other than the one submitted for it.                            *)
(***************************************************************************)
C21_CategoryHasPendingAmount ==
    \A k \in AllKeys :
        ExpenseFlow(k) = CATEGORY
        => /\ k[2] \in DOMAIN user_temp_data
           /\ \E t \in Texts :
                  /\ ParseFloat(t) # ValueError
                  /\ user_temp_data[k[2]].amount = ParseFloat(t)

\* chat 1 waits for a category while /cancel in chat 2 has removed the
\* amount submitted in chat 1
C21_Witness ==
    /\ ExpenseFlow(<<1, 42>>) = CATEGORY
    /\ 42 \notin DOMAIN user_temp_data
    /\ last.callback = "cancel"
    /\ last.update.key = <<2, 42>>

\* with one chat per contributor the pending amount is there, and it is
\* the contributor's own
C21_OneChatPerContributor ==
    \A k \in GroupKeys :
        ExpenseFlow(k) = CATEGORY
        => /\ k[2] \in DOMAIN user_temp_data
           /\ \E t \in IsoTexts(k) :
                  /\ ParseFloat(t) # ValueError
                  /\ user_temp_data[k[2]].amount = ParseFloat(t)

(***************************************************************************)
(* C22.  A category whose deletion has just been confirmed is absent from *)
(* what the next /categories lists, whatever was handled before the       *)
(* deletion: /start, which stores the defaults for the user, and          *)
(* deletions that empty the store included.                               *)
(***************************************************************************)
C22_Step ==
    (/\ last.callback = "confirm_delete_category"
     /\ ~last.raised
     /\ Ran("list_categories"))
    => ~Contains(listed', DropPrefix(last.update.data, 4))

C22_DeletedCategoryNotListed == [][C22_Step]_vars

\* a category deleted after /start is listed again
C22_Witness ==
    /\ last.callback = "list_categories"
    /\ Contains(listed, default_categories[1])
    /\ ~\E i \in 1..Len(categories) :
           /\ categories[i].user_id = GlobalScope
           /\ categories[i].category = default_categories[1]
    /\ \E i \in 1..Len(categories) :
           /\ categories[i].user_id = 42
           /\ categories[i].category = default_categories[1]

\* the rows of the shared scope that carry the name are gone once the
\* deletion is confirmed
C22_SharedRowsDeleted ==
    (last.callback = "confirm_delete_category" /\ ~last.raised)
    => ~\E i \in 1..Len(categories) :
           /\ categories[i].user_id = GlobalScope
           /\ categories[i].category = DropPrefix(last.update.data, 4)

(***************************************************************************)
(* C23.  get_categories never returns an empty list: an empty store is    *)
(* seeded with the defaults before it returns.  So delete_category_command *)
(* never answers that there is nothing to delete, and amount_entered      *)
(* always shows at least one category.                                    *)
(***************************************************************************)
C23_CategoriesNeverEmpty ==
    /\ get_categories(categories).categories # <<>>
    /\ last.reply # "nothing_to_delete"
    /\ (last.callback = "delete_category_command" /\ ~last.raised)
           => (last.reply = "choose_to_delete" /\ categories # <<>>)
    /\ (last.callback = "amount_entered" /\ last.reply = "choose_category")
           => categories # <<>>

\* /delete_category on the empty store: the defaults are stored and offered
C23_Witness ==
    /\ last.callback = "delete_category_command"
    /\ last.reply = "choose_to_delete"
    /\ categories = InsertDefaults(<<>>, GlobalScope, 1)

\* with get_categories running in several workers at once, whatever a
\* call has returned is not empty
C23_ConcurrentResultNotEmpty ==
    \A w \in Workers :
        (workers[w].calls > 0 /\ workers[w].pc = "idle")
        => workers[w].result # <<>>

====
